---- MODULE Spec2Model ----
(***************************************************************************)
(* ScrollTrigger (magic-spells/scroll-trigger): a scroll spy that tracks   *)
(* which of a list of page sections has crossed a trigger line measured    *)
(* from the bottom of the viewport.  The model follows the CommonJS build  *)
(* of the class: its private fields are the variables, each handler or     *)
(* public method is one action, and the browser (timers, observers, the    *)
(* scroll position, the viewport height, the user's callback) is the       *)
(* environment.                                                            *)
(***************************************************************************)
EXTENDS Integers, Sequences, FiniteSets, TLC

VARIABLES
    \* fields of the ScrollTrigger instance
    elements,            \* #elements: the tracked list (DOM element ids)
    currentIndex,        \* #currentIndex (0-based, -1 = none)
    observer,            \* #observer: NULL or the id of an IntersectionObserver
    config,              \* #config
    intersectingMap,     \* #intersectingMap: element -> BOOLEAN
    throttleTimer,       \* #throttleTimer: NULL or a timeout id
    isDestroyed,         \* #isDestroyed
    resizeObserver,      \* #resizeObserver: NULL or the id of a ResizeObserver
    scrollHandler,       \* #scrollHandler: NULL or the listener function
    elementsShared,      \* #elements is the very array the caller passed in
    \* the browser
    attr,                \* data-animate-offset of every DOM element
    scrollY,             \* window.pageYOffset
    innerHeight,         \* window.innerHeight
    timers,              \* the pending timeouts (setTimeout not yet fired or cleared)
    observers,           \* the connected IntersectionObservers
    resizeObservers,     \* the connected ResizeObservers
    scrollListeners,     \* the listeners attached to window's scroll event
    \* observation of the run
    destroyCalled,       \* a call of destroy() has been made
    sinceRecompute,      \* ms since the last recompute of any origin (saturating)
    sinceTimerRecompute, \* ms since the last timer-driven recompute (saturating)
    timed,               \* the clock is modelled (else a timeout may fire at any time)
    last                 \* what the last turn did

vars == <<elements, currentIndex, observer, config, intersectingMap, throttleTimer,
          isDestroyed, resizeObserver, scrollHandler, elementsShared, attr, scrollY,
          innerHeight, timers, observers, resizeObservers, scrollListeners, destroyCalled,
          sinceRecompute, sinceTimerRecompute, timed, last>>

----------------------------------------------------------------------------
(* Bounds of the model *)

\* number of elements in the document that a tracker may be given
NumDom == 3
\* granularity of time: one Tick advances the clock by this many ms
TickMs == 25
\* the clocks stop counting at this many ms
ClockCap == 75

----------------------------------------------------------------------------
(* JavaScript values *)

NULL == [t |-> "null"]
Num(n) == [t |-> "num", n |-> n]
Str(s) == [t |-> "str", s |-> s]
Fn == [t |-> "function"]

\* a JS number that may be NaN
JNum(v) == [nan |-> FALSE, v |-> v]
JNaN == [nan |-> TRUE, v |-> 0]

Digits == <<"0", "1", "2", "3", "4", "5", "6", "7", "8", "9">>
IsDigit(c) == \E d \in 1..10 : Digits[d] = c
DigitVal(c) == (CHOOSE d \in 1..10 : Digits[d] = c) - 1

\* /^\d+$/.test(s)
IsDigitString(s) == Len(s) > 0 /\ \A i \in 1..Len(s) : IsDigit(s[i])

\* value of the decimal digits s[1..k]
RECURSIVE DigitsValue(_, _)
DigitsValue(s, k) == IF k = 0 THEN 0 ELSE 10 * DigitsValue(s, k - 1) + DigitVal(s[k])

\* parseInt(s, 10) of a digit string
ParseInt10(s) == DigitsValue(s, Len(s))

\* length of the longest run of digits of s that starts at position i
RECURSIVE DigitRun(_, _)
DigitRun(s, i) == IF i <= Len(s) /\ IsDigit(s[i]) THEN 1 + DigitRun(s, i + 1) ELSE 0

\* parseFloat(s) as an exact fraction num/den (an optional sign, digits, an
\* optional fraction), NaN when s does not start with a number
ParseFloat(s) ==
    LET neg == Len(s) >= 1 /\ s[1] = "-"
        b == IF Len(s) >= 1 /\ s[1] \in {"-", "+"} THEN 2 ELSE 1
        ni == DigitRun(s, b)
        dot == b + ni <= Len(s) /\ s[b + ni] = "."
        nf == IF dot THEN DigitRun(s, b + ni + 1) ELSE 0
        ip == DigitsValue(SubSeq(s, b, b + ni - 1), ni)
        fp == DigitsValue(SubSeq(s, b + ni + 1, b + ni + nf), nf)
        den == 10 ^ nf
        mag == ip * den + fp
    IN IF ni + nf = 0 THEN [nan |-> TRUE, num |-> 0, den |-> 1]
       ELSE [nan |-> FALSE, num |-> IF neg THEN -mag ELSE mag, den |-> den]

\* Math.round(p / q) for q > 0: the nearest integer, halves rounded up
MathRound(p, q) == (2 * p + q) \div (2 * q)

\* A JS number is an IEEE 754 double.  Where the arithmetic of the program is
\* inexact it is modelled bit by bit: a double is a sign, the bits of an
\* integer mantissa (most significant first, no leading zero, at most
\* MantissaBits of them) and a binary exponent, its value being
\* mantissa * 2^exp.
MantissaBits == 53

\* the element of a one-element set; The({e : v \in {x}}) is e with v bound
\* to the value of x, which is evaluated once
The(S) == CHOOSE r \in S : TRUE

\* the bits of the natural number n
RECURSIVE BitsOf(_)
BitsOf(n) ==
    The({IF v = 0 THEN <<>> ELSE Append(BitsOf(v \div 2), v % 2) : v \in {n}})

\* the number whose bits are b[1..k]
RECURSIVE IntOfFirst(_, _)
IntOfFirst(b, k) == IF k = 0 THEN 0 ELSE 2 * IntOfFirst(b, k - 1) + b[k]

\* the bits of b[1..k] + 1
RECURSIVE IncrementFirst(_, _)
IncrementFirst(b, k) ==
    IF k = 0 THEN <<1>>
    ELSE IF b[k] = 0 THEN Append(SubSeq(b, 1, k - 1), 1)
    ELSE Append(IncrementFirst(b, k - 1), 0)

\* the double nearest to bits * 2^exp (plus, when sticky, a non-zero rest
\* below the last bit): round to nearest, ties to even
RoundToDouble(bits, exp, sticky) ==
    IF Len(bits) <= MantissaBits THEN [bits |-> bits, exp |-> exp]
    ELSE LET kept == SubSeq(bits, 1, MantissaBits)
             rest == Len(bits) - MantissaBits
             more == sticky \/ \E i \in (MantissaBits + 2)..Len(bits) : bits[i] = 1
             up == bits[MantissaBits + 1] = 1 /\ (more \/ bits[MantissaBits] = 1)
         IN IF ~up THEN [bits |-> kept, exp |-> exp + rest]
            ELSE The({IF Len(m) > MantissaBits
                      THEN [bits |-> SubSeq(m, 1, MantissaBits), exp |-> exp + rest + 1]
                      ELSE [bits |-> m, exp |-> exp + rest]
                        : m \in {IncrementFirst(kept, MantissaBits)}})

\* long division of the bits m by the positive integer d: at s = <<k, r, q>>
\* k bits of m are consumed, with remainder r and quotient bits q so far; it
\* goes on below the binary point until the division is exact or the
\* quotient has one bit more than a mantissa
DivBits(m, d) ==
    LET step[s \in Nat \X Nat \X Seq({0, 1})] ==
            LET v == 2 * s[2] + (IF s[1] < Len(m) THEN m[s[1] + 1] ELSE 0)
            IN IF s[1] >= Len(m) /\ (s[2] = 0 \/ Len(s[3]) > MantissaBits)
               THEN [bits |-> s[3], used |-> s[1], rem |-> s[2]]
               ELSE step[<<s[1] + 1,
                           IF v >= d THEN v - d ELSE v,
                           IF v >= d THEN Append(s[3], 1)
                           ELSE IF s[3] = <<>> THEN <<>> ELSE Append(s[3], 0)>>]
    IN step[<<0, 0, <<>>>>]

\* x / d for a double x >= 0 and a positive integer d
DivDouble(x, d) ==
    The({RoundToDouble(r.bits, x.exp - (r.used - Len(x.bits)), r.rem # 0)
           : r \in {DivBits(x.bits, d)}})

\* the bits of m * h for a natural number h: at s = <<k, c, q>> the bits
\* m[k+1..] are multiplied, with carry c and product bits q so far
MulBits(m, h) ==
    LET step[s \in Nat \X Nat \X Seq({0, 1})] ==
            LET v == (IF s[1] >= 1 THEN m[s[1]] * h ELSE 0) + s[2]
            IN IF s[1] = 0 /\ s[2] = 0 THEN s[3]
               ELSE step[<<IF s[1] >= 1 THEN s[1] - 1 ELSE 0,
                           v \div 2, <<v % 2>> \o s[3]>>]
    IN step[<<Len(m), 0, <<>>>>]

\* x * h for a double x >= 0 and a natural number h
MulDouble(x, h) ==
    IF h = 0 THEN [bits |-> <<>>, exp |-> 0]
    ELSE The({RoundToDouble(b, x.exp, FALSE)
               : b \in {MulBits(x.bits, h)}})

\* Math.round(x) for the double x, negated when neg: the nearest integer,
\* a half rounded towards plus infinity
RoundDouble(x, neg) ==
    LET n == Len(x.bits)
        f == 0 - x.exp
        whole == IF n > f THEN IntOfFirst(x.bits, n - f) ELSE 0
        half == n >= f /\ x.bits[n - f + 1] = 1
        more == \E i \in (n - f + 2)..n : i >= 1 /\ x.bits[i] = 1
    IN IF x.bits = <<>> THEN 0
       ELSE IF x.exp >= 0
       THEN (IF neg THEN -1 ELSE 1) * IntOfFirst(x.bits, n) * 2 ^ x.exp
       ELSE IF neg THEN 0 - (whole + (IF half /\ more THEN 1 ELSE 0))
       ELSE whole + (IF half THEN 1 ELSE 0)

Abs(n) == IF n < 0 THEN 0 - n ELSE n

\* the double that parseFloat yields for the decimal fraction num / den
DoubleOf(num, den) ==
    IF den = 1 THEN [bits |-> BitsOf(Abs(num)), exp |-> 0]
    ELSE DivDouble([bits |-> BitsOf(Abs(num)), exp |-> 0], den)

\* Math.round(window.innerHeight * (parseFloat(offset) / 100))
RoundedShare(height, parsed) ==
    The({RoundDouble(product, parsed.num < 0)
           : product \in {MulDouble(DivDouble(DoubleOf(parsed.num, parsed.den), 100),
                                   height)}})

----------------------------------------------------------------------------
(* The document *)

DomElems == 1..NumDom

\* page position of the top edge of element e: the sections are stacked
PosOf(e) == 3 * e - 1

Percent50 == Str(<<"5", "0", "%">>)
Percent20 == Str(<<"2", "0", "%">>)
AttrCycle == <<Percent50, Str(<<"2">>), Str(<<"x">>), NULL>>

\* the data-animate-offset attributes a document may carry
AttrLayouts ==
    { [e \in DomElems |-> NULL],
      [e \in DomElems |-> AttrCycle[((e - 1) % 4) + 1]] }

Heights == {4, 5}
ScrollPositions == {0, 3, 6, 104}

\* what the caller passes as options.sections
Selector(k) == [kind |-> "selector", els |-> [i \in 1..k |-> i]]
ArrayOf(s) == [kind |-> "array", els |-> s]
SectionInputs ==
    {Selector(0), Selector(1), Selector(NumDom), ArrayOf(<<2, 1>>)}

SeqRange(s) == {s[i] : i \in 1..Len(s)}

\* the smallest positive id not in use
FreshId(used) == CHOOSE i \in 1..(Cardinality(used) + 1) :
                    i \notin used /\ \A j \in 1..(i - 1) : j \in used

----------------------------------------------------------------------------
(* The instance and the browser as one record, so that a method is an      *)
(* operator from the state before the call to the state after it.  The     *)
(* fields notes, recs, warns, scrolls, threw and refreshes (the calls of   *)
(* refresh() that passed its guard) describe the current turn, firstCall   *)
(* what the first of two calls made in the turn left behind, running the   *)
(* number of recomputes that have begun and not ended, ioLog the           *)
(* intersection observers created and disconnected in the turn, in order;  *)
(* cbPlan is what the user's callback will do on its next invocations.     *)

World ==
    [elements |-> elements, currentIndex |-> currentIndex, observer |-> observer,
     config |-> config, intersectingMap |-> intersectingMap,
     throttleTimer |-> throttleTimer, isDestroyed |-> isDestroyed,
     resizeObserver |-> resizeObserver, scrollHandler |-> scrollHandler,
     elementsShared |-> elementsShared,
     attr |-> attr, scrollY |-> scrollY, innerHeight |-> innerHeight,
     timers |-> timers, observers |-> observers,
     resizeObservers |-> resizeObservers, scrollListeners |-> scrollListeners,
     destroyCalled |-> destroyCalled,
     notes |-> <<>>, recs |-> <<>>, warns |-> 0, scrolls |-> <<>>,
     threw |-> FALSE, cbPlan |-> <<>>, cbScroll |-> 0, args |-> <<>>,
     refreshes |-> 0, firstCall |-> <<>>, running |-> 0, ioLog |-> <<>>]

\* field initialisers of the class
FieldDefaults(a, y, h) ==
    [elements |-> <<>>, currentIndex |-> -1, observer |-> NULL,
     config |-> [offset |-> Num(100), threshold |-> "0.1", throttle |-> 50,
                 behavior |-> "smooth", onIndexChange |-> NULL],
     intersectingMap |-> <<>>,
     throttleTimer |-> NULL, isDestroyed |-> FALSE,
     resizeObserver |-> NULL, scrollHandler |-> NULL,
     elementsShared |-> FALSE,
     attr |-> a, scrollY |-> y, innerHeight |-> h,
     timers |-> <<>>, observers |-> <<>>,
     resizeObservers |-> <<>>, scrollListeners |-> 0,
     destroyCalled |-> FALSE,
     notes |-> <<>>, recs |-> <<>>, warns |-> 0, scrolls |-> <<>>,
     threw |-> FALSE, cbPlan |-> <<>>, cbScroll |-> 0, args |-> <<>>,
     refreshes |-> 0, firstCall |-> <<>>, running |-> 0, ioLog |-> <<>>]

\* { ...a, ...b }
Merge(a, b) ==
    [k \in DOMAIN a \cup DOMAIN b |-> IF k \in DOMAIN b THEN b[k] ELSE a[k]]

----------------------------------------------------------------------------
(* Offsets *)

\* #getElements(input)
GetElementsFrom(input) ==
    IF input.kind \in {"selector", "nodelist", "array"} THEN input.els ELSE <<>>

\* #getElements(input) returns the input itself when it is an array, and a
\* new array otherwise
ReturnsInputItself(input) == input.kind = "array"

\* #isPercentageOffset(offset)
IsPercentageOffset(offset) ==
    offset.t = "str" /\ \E i \in 1..Len(offset.s) : offset.s[i] = "%"

\* #calculateOffset(offset): pixels from the bottom of the viewport
CalculateOffset(w, offset) ==
    IF IsPercentageOffset(offset)
    THEN LET percentage == ParseFloat(offset.s)
         IN IF percentage.nan THEN JNaN
            ELSE JNum(RoundedShare(w.innerHeight, percentage))
    ELSE IF offset.t = "num" THEN JNum(offset.n) ELSE JNum(100)

\* faulty variant: the attribute is returned as the string it is, digits or not
GetElementOffsetUnparsed(w, element) ==
    IF w.attr[element] # NULL THEN w.attr[element] ELSE w.config.offset

\* #getElementOffset(element)
GetElementOffset(w, element) ==
    LET customOffset == w.attr[element]
    IN IF customOffset # NULL
       THEN IF IsDigitString(customOffset.s)
            THEN Num(ParseInt10(customOffset.s))
            ELSE customOffset
       ELSE w.config.offset

\* #hasPercentageOffsets()
HasPercentageOffsets(w) ==
    \/ IsPercentageOffset(w.config.offset)
    \/ \E i \in 1..Len(w.elements) :
          LET customOffset == w.attr[w.elements[i]]
          IN /\ customOffset # NULL
             /\ Len(customOffset.s) > 0
             /\ IsPercentageOffset(customOffset)

\* window.innerHeight - offsetPx for one element
TriggerLine(w, element) ==
    LET offsetPx == CalculateOffset(w, GetElementOffset(w, element))
    IN IF offsetPx.nan THEN JNaN ELSE JNum(w.innerHeight - offsetPx.v)

\* element.getBoundingClientRect().top
RectTop(w, element) == PosOf(element) - w.scrollY

\* faulty variant: an element on its trigger line has not crossed it
HasCrossedStrict(w, element) ==
    LET triggerLine == TriggerLine(w, element)
    IN ~triggerLine.nan /\ RectTop(w, element) < triggerLine.v

\* rect.top <= triggerLine
HasCrossed(w, element) ==
    LET triggerLine == TriggerLine(w, element)
    IN ~triggerLine.nan /\ RectTop(w, element) <= triggerLine.v

----------------------------------------------------------------------------
(* Browser objects *)

TimerId(i) == [t |-> "timeout", id |-> i]
IoRef(i) == [t |-> "io", id |-> i]
RoRef(i) == [t |-> "ro", id |-> i]

\* no element (null)
None == 0

\* this.#elements[i] || null
ElementAt(els, i) == IF i >= 0 /\ i < Len(els) THEN els[i + 1] ELSE None

RemoveAt(s, k) == SubSeq(s, 1, k - 1) \o SubSeq(s, k + 1, Len(s))

\* the entries of s whose id is not i
RECURSIVE WithoutId(_, _)
WithoutId(s, i) ==
    IF s = <<>> THEN <<>>
    ELSE IF Head(s).id = i THEN WithoutId(Tail(s), i)
    ELSE <<Head(s)>> \o WithoutId(Tail(s), i)

\* clearTimeout(ref)
ClearTimeout(w, ref) == [w EXCEPT !.timers = WithoutId(@, ref.id)]

\* observer.disconnect()
IoDisconnect(w, ref) ==
    [w EXCEPT !.observers = WithoutId(@, ref.id),
              !.ioLog = Append(@, "disconnect")]

\* resizeObserver.disconnect()
RoDisconnect(w, ref) == [w EXCEPT !.resizeObservers = WithoutId(@, ref.id)]

----------------------------------------------------------------------------
(* Private methods *)


\* #setupObserver()
SetupObserver(this) ==
    The({
        LET offsetPx == CalculateOffset(w, w.config.offset)
            id == FreshId({w.observers[k].id : k \in 1..Len(w.observers)})
            io == [id |-> id, rootMargin |-> offsetPx,
                   threshold |-> w.config.threshold, targets |-> SeqRange(w.elements)]
        IN [w EXCEPT !.observer = IoRef(id),
                     !.observers = Append(@, io),
                     !.ioLog = Append(@, "create"),
                     !.intersectingMap =
                         [e \in DOMAIN @ \cup SeqRange(w.elements) |->
                             IF e \in SeqRange(w.elements) THEN FALSE ELSE @[e]]]
          : w \in {this}})

\* if (this.#observer) this.#observer.disconnect()
DisconnectObserver(this) ==
    The({
        IF w.observer # NULL THEN IoDisconnect(w, w.observer) ELSE w
          : w \in {this}})

\* faulty variant: the ResizeObserver's callback creates the new observer
\* without disconnecting the old one
ResizeCallbackKeepsOld(this) == SetupObserver(this)

\* the callback given to the ResizeObserver
ResizeCallback(this) == SetupObserver(DisconnectObserver(this))

\* #setupResizeObserver()
SetupResizeObserver(this) ==
    The({
        LET id == FreshId({w.resizeObservers[k].id : k \in 1..Len(w.resizeObservers)})
        IN [w EXCEPT !.resizeObserver = RoRef(id),
                     !.resizeObservers = Append(@, [id |-> id])]
          : w \in {this}})

\* faulty variant: #throttleIndexUpdate() without its gate
ThrottleIndexUpdateNoGate(this) ==
    The({
        LET id == FreshId({w.timers[k].id : k \in 1..Len(w.timers)})
        IN [w EXCEPT !.throttleTimer = TimerId(id),
                     !.timers = Append(@, [id |-> id,
                                           remaining |-> w.config.throttle,
                                           delay |-> w.config.throttle])]
          : w \in {this}})

\* #throttleIndexUpdate(): the gate and the setTimeout call
ThrottleIndexUpdate(this) ==
    The({
        IF w.throttleTimer # NULL THEN w
        ELSE LET id == FreshId({w.timers[k].id : k \in 1..Len(w.timers)})
             IN [w EXCEPT !.throttleTimer = TimerId(id),
                          !.timers = Append(@, [id |-> id,
                                                remaining |-> w.config.throttle,
                                                delay |-> w.config.throttle])]
          : w \in {this}})

\* #setupScrollListener()
SetupScrollListener(this) ==
    The({
        [w EXCEPT !.scrollHandler = Fn, !.scrollListeners = @ + 1]
          : w \in {this}})

\* #handleIntersection(entries)
HandleIntersection(this, entries) ==
    The({
        IF w.isDestroyed THEN w
        ELSE ThrottleIndexUpdate(
                [w EXCEPT !.intersectingMap =
                    [e \in DOMAIN @ \cup DOMAIN entries |->
                        IF e \in DOMAIN entries THEN entries[e] ELSE @[e]]])
          : w \in {this}})

\* faulty variant: the scan run upwards: the first index from 0 up to i
ScanUp(w, i) ==
    LET crossed == {j \in 0..i : HasCrossed(w, w.elements[j + 1])}
    IN IF crossed = {} THEN -1 ELSE CHOOSE j \in crossed : \A x \in crossed : j <= x

\* faulty variant: the scan looks only at the elements the intersection map
\* holds as intersecting
ScanIntersecting(w, i) ==
    LET crossed == {j \in 0..i :
                       /\ w.elements[j + 1] \in DOMAIN w.intersectingMap
                       /\ w.intersectingMap[w.elements[j + 1]]
                       /\ HasCrossed(w, w.elements[j + 1])}
    IN IF crossed = {} THEN -1 ELSE CHOOSE j \in crossed : \A x \in crossed : j >= x

\* the reverse scan of #updateActiveIndex: the first index from i down to 0
\* whose element has crossed its trigger line, -1 if there is none
RECURSIVE ScanFrom(_, _)
ScanFrom(w, i) ==
    IF i < 0 THEN -1
    ELSE IF HasCrossed(w, w.elements[i + 1]) THEN i
    ELSE ScanFrom(w, i - 1)

\* window.dispatchEvent(new CustomEvent(...)): the listeners run at once and
\* read getCurrentIndex()
EmitEvent(this, rid, detail) ==
    The({
        [w EXCEPT !.notes = Append(@,
            [kind |-> "event", rid |-> rid, detail |-> detail,
             seen |-> w.currentIndex, len |-> Len(w.elements),
             destroyed |-> w.destroyCalled])]
          : w \in {this}})

\* faulty variant: the timer id is forgotten but the timeout is not cleared
ClearThrottleTimerKeepsTimeout(this) == [this EXCEPT !.throttleTimer = NULL]

\* destroy(): if (this.#throttleTimer) { clearTimeout(...); ... = null }
ClearThrottleTimer(this) ==
    The({
        IF w.throttleTimer # NULL
        THEN [ClearTimeout(w, w.throttleTimer) EXCEPT !.throttleTimer = NULL]
        ELSE w
          : w \in {this}})

\* destroy(): if (this.#observer) { ...disconnect(); ... = null }
ReleaseObserver(this) ==
    The({
        IF w.observer # NULL
        THEN [IoDisconnect(w, w.observer) EXCEPT !.observer = NULL]
        ELSE w
          : w \in {this}})

\* if (this.#resizeObserver) { ...disconnect(); ... = null }
ReleaseResizeObserver(this) ==
    The({
        IF w.resizeObserver # NULL
        THEN [RoDisconnect(w, w.resizeObserver) EXCEPT !.resizeObserver = NULL]
        ELSE w
          : w \in {this}})

\* destroy(): if (this.#scrollHandler) { removeEventListener(...); ... = null }
RemoveScrollListener(this) ==
    The({
        IF w.scrollHandler # NULL
        THEN [w EXCEPT !.scrollListeners = @ - 1, !.scrollHandler = NULL]
        ELSE w
          : w \in {this}})

\* faulty variant: the reset that forgets the index
DestroyResetKeepsIndex(this) ==
    The({
        [w EXCEPT !.intersectingMap = <<>>, !.elements = <<>>,
                  !.elementsShared = FALSE]
          : w \in {this}})

\* the last statements of destroy(): the map, the list and the index
DestroyReset(this) ==
    The({
        [w EXCEPT !.intersectingMap = <<>>, !.elements = <<>>,
                  !.elementsShared = FALSE, !.currentIndex = -1]
          : w \in {this}})

\* the body of destroy() after its guard
Teardown(this) ==
    DestroyReset(RemoveScrollListener(ReleaseResizeObserver(ReleaseObserver(
        ClearThrottleTimer([this EXCEPT !.isDestroyed = TRUE])))))

\* faulty variant: destroy() with its guard inverted
DestroyInvertedGuard(this) ==
    The({IF ~w.isDestroyed THEN w ELSE Teardown(w)
          : w \in {this}})

\* destroy()
Destroy(this) ==
    The({IF w.isDestroyed THEN w ELSE Teardown(w)
          : w \in {this}})

\* a call of destroy() by the page
CallDestroy(this) == [Destroy(this) EXCEPT !.destroyCalled = TRUE]

\* window.scrollTo({top, behavior}) as the callback uses it: an instant jump
JumpTo(this, y) == [this EXCEPT !.scrollY = y]

RECURSIVE UpdateActiveIndex(_)
RECURSIVE Refresh(_)

\* the argument list of this.#config.onIndexChange({...}): one object
CallbackArguments(detail) ==
    <<[currentIndex |-> detail.index, previousIndex |-> detail.previousIndex,
       currentElement |-> detail.section,
       previousElement |-> detail.previousSection]>>

\* the user's onIndexChange function: it reads getCurrentIndex(), and then
\* returns, throws, or calls back into the instance, as w.cbPlan says
OnIndexChange(this, rid, detail) ==
    The({
        LET does == IF w.cbPlan = <<>> THEN "return" ELSE Head(w.cbPlan)
            w1 == [w EXCEPT !.cbPlan = IF @ = <<>> THEN <<>> ELSE Tail(@),
                            !.notes = Append(@,
                                [kind |-> "callback", rid |-> rid, detail |-> detail,
                                 arguments |-> CallbackArguments(detail),
                                 seen |-> w.currentIndex, len |-> Len(w.elements),
                                 destroyed |-> w.destroyCalled])]
        IN CASE does = "return" -> w1
             [] does = "throw" -> [w1 EXCEPT !.threw = TRUE]
             [] does = "destroy" -> CallDestroy(w1)
             [] does = "refresh" -> Refresh(w1)
             [] does = "scroll" -> Refresh(JumpTo(w1, w.cbScroll))
          : w \in {this}})

\* faulty variant: the previous index read after the new one has been stored
ChangeDetailStalePrevious(w, newIndex) ==
    [index |-> newIndex, previousIndex |-> newIndex,
     section |-> ElementAt(w.elements, newIndex),
     previousSection |-> ElementAt(w.elements, newIndex)]

\* what #updateActiveIndex passes to the callback and to the event, computed
\* from the state before the index is stored; the callback receives the same
\* four values under the names currentIndex, previousIndex, currentElement
\* and previousElement
ChangeDetail(w, newIndex) ==
    LET previousIndex == w.currentIndex
        currentElement == ElementAt(w.elements, newIndex)
        previousElement == ElementAt(w.elements, previousIndex)
    IN [index |-> newIndex, previousIndex |-> previousIndex,
        section |-> currentElement, previousSection |-> previousElement]

\* the callback, when it is a function, then the event unless the callback threw
CallbackThenEvent(this, rid, detail) ==
    The({IF w.threw THEN w ELSE EmitEvent(w, rid, detail)
           : w \in {IF this.config.onIndexChange = Fn
                    THEN OnIndexChange(this, rid, detail)
                    ELSE this}})

\* the branch of #updateActiveIndex taken on a change; the recompute is
\* running until the callback and the event have returned or thrown
NotifyChange(this, rid, newIndex) ==
    The({[r EXCEPT !.running = @ - 1]
           : r \in {CallbackThenEvent([this EXCEPT !.currentIndex = newIndex,
                                                   !.running = @ + 1],
                                      rid, ChangeDetail(this, newIndex))}})

\* the record of a recompute: its result and what it read
Recorded(w, newIndex) ==
    [w EXCEPT !.recs = Append(@,
        [newIndex |-> newIndex, stored |-> w.currentIndex,
         els |-> w.elements, scrollY |-> w.scrollY,
         innerHeight |-> w.innerHeight, offset |-> w.config.offset,
         hasCallback |-> w.config.onIndexChange = Fn,
         running |-> w.running])]

\* faulty variant: the recompute notifies whether or not the index changed
UpdateActiveIndexAlwaysNotifies(this) ==
    The({IF w.isDestroyed THEN w
         ELSE LET newIndex == ScanFrom(w, Len(w.elements) - 1)
              IN NotifyChange(Recorded(w, newIndex), Len(w.recs) + 1, newIndex)
           : w \in {this}})

\* #updateActiveIndex()
UpdateActiveIndex(this) ==
    The({IF w.isDestroyed THEN w
         ELSE LET newIndex == ScanFrom(w, Len(w.elements) - 1)
              IN IF newIndex # w.currentIndex
                 THEN NotifyChange(Recorded(w, newIndex), Len(w.recs) + 1, newIndex)
                 ELSE Recorded(w, newIndex)
           : w \in {this}})

\* refresh(): every element of the list is unobserved and observed again
ReobserveAll(w) ==
    [w EXCEPT !.observers =
        [k \in DOMAIN @ |->
            IF w.observer # NULL /\ @[k].id = w.observer.id
            THEN [@[k] EXCEPT !.targets = @ \cup SeqRange(w.elements)]
            ELSE @[k]]]

\* faulty variant: refresh() asks for a throttled recompute instead of
\* recomputing itself
RefreshThrottled(this) ==
    The({
        IF w.isDestroyed THEN w
        ELSE ThrottleIndexUpdate(ReobserveAll([w EXCEPT !.refreshes = @ + 1]))
          : w \in {this}})

\* refresh(): the elements are re-observed (which throws when there are
\* elements and no observer), then the index is recomputed
Refresh(this) ==
    The({
        IF w.isDestroyed THEN w
        ELSE IF w.elements # <<>> /\ w.observer = NULL
        THEN [w EXCEPT !.threw = TRUE, !.refreshes = @ + 1]
        ELSE UpdateActiveIndex(ReobserveAll([w EXCEPT !.refreshes = @ + 1]))
          : w \in {this}})

\* try { refresh() } catch (e) {} refresh(): two calls in a row by the page,
\* the second one made whether or not the first one threw
RefreshTwice(this) ==
    The({The({[v EXCEPT !.threw = v.threw \/ w.threw]
                : v \in {Refresh([w EXCEPT
                            !.threw = FALSE,
                            !.firstCall = <<[index |-> w.currentIndex,
                                             notes |-> w.notes,
                                             recs |-> w.recs,
                                             threw |-> w.threw,
                                             isDestroyed |-> w.isDestroyed]>>])}})
           : w \in {Refresh(this)}})

\* the function given to setTimeout by #throttleIndexUpdate
TimerCallback(this) ==
    The({IF w.threw THEN w ELSE [w EXCEPT !.throttleTimer = NULL]
           : w \in {UpdateActiveIndex(this)}})

----------------------------------------------------------------------------
(* Constructor and public methods *)

\* faulty variant: the constructor ends with a recompute
SetupTrackingRecomputes(this) ==
    The({UpdateActiveIndex(SetupScrollListener(IF HasPercentageOffsets(w)
                                               THEN SetupResizeObserver(w) ELSE w))
           : w \in {SetupObserver(this)}})

\* constructor(options): the observers and the listener of a tracker that
\* has elements
SetupTracking(this) ==
    The({SetupScrollListener(IF HasPercentageOffsets(w)
                             THEN SetupResizeObserver(w) ELSE w)
           : w \in {SetupObserver(this)}})

\* constructor(options)
Constructor(this, options) ==
    The({IF Len(w.elements) = 0
         THEN [w EXCEPT !.warns = @ + 1]
         ELSE SetupTracking(w)
           : w \in {[this EXCEPT
                        !.config = Merge(@, options),
                        !.elements = GetElementsFrom(Merge(this.config, options).sections),
                        !.elementsShared =
                            ReturnsInputItself(Merge(this.config, options).sections)]}})

\* getCurrentIndex()
GetCurrentIndex(w) == w.currentIndex

\* getCurrentElement()
GetCurrentElement(w) == ElementAt(w.elements, w.currentIndex)

\* getElements()
GetElements(w) == [i \in 1..Len(w.elements) |-> w.elements[i]]

\* faulty variant: the trigger line is taken from the global offset, not from
\* the element's own
ScrollToValidIndexGlobalOffset(w, index, options) ==
    LET element == w.elements[index + 1]
        additionalOffset == IF "offset" \in DOMAIN options
                            THEN options.offset ELSE 0
        offsetPx == CalculateOffset(w, w.config.offset)
    IN [w EXCEPT !.scrolls = Append(@,
           [top |-> JNum(RectTop(w, element) + w.scrollY
                         - (w.innerHeight - offsetPx.v) - additionalOffset),
            behavior |-> IF "behavior" \in DOMAIN options
                         THEN options.behavior ELSE w.config.behavior])]

\* scrollToIndex(index, options) after its range check
ScrollToValidIndex(w, index, options) ==
    LET element == w.elements[index + 1]
        behavior == IF "behavior" \in DOMAIN options
                    THEN options.behavior ELSE w.config.behavior
        additionalOffset == IF "offset" \in DOMAIN options
                            THEN options.offset ELSE 0
        triggerLine == TriggerLine(w, element)
        targetPosition ==
            IF triggerLine.nan THEN JNaN
            ELSE JNum(RectTop(w, element) + w.scrollY - triggerLine.v
                      - additionalOffset)
    IN [w EXCEPT !.scrolls = Append(@, [top |-> targetPosition,
                                        behavior |-> behavior])]

\* faulty variant: an index out of range is clamped into the range
ScrollToIndexClamped(this, index, options) ==
    The({IF Len(w.elements) = 0
         THEN [w EXCEPT !.warns = @ + 1]
         ELSE ScrollToValidIndex(w, IF index < 0 THEN 0
                                    ELSE IF index >= Len(w.elements)
                                    THEN Len(w.elements) - 1 ELSE index,
                                 options)
           : w \in {this}})

\* scrollToIndex(index, options)
ScrollToIndex(this, index, options) ==
    The({IF index < 0 \/ index >= Len(w.elements)
         THEN [w EXCEPT !.warns = @ + 1]
         ELSE ScrollToValidIndex(w, index, options)
           : w \in {this}})

\* this.#elements.indexOf(element)
RECURSIVE IndexOfFrom(_, _, _)
IndexOfFrom(els, element, i) ==
    IF i >= Len(els) THEN -1
    ELSE IF els[i + 1] = element THEN i
    ELSE IndexOfFrom(els, element, i + 1)

\* scrollToElement(element, options)
ScrollToElement(this, element, options) ==
    The({LET index == IndexOfFrom(w.elements, element, 0)
         IN IF index = -1
            THEN [w EXCEPT !.warns = @ + 1]
            ELSE ScrollToIndex(w, index, options)
           : w \in {this}})

\* faulty variant: the resize observer is set up when percentages appear and
\* kept when they disappear
UpdateResizeObserverKeeps(this) ==
    The({IF HasPercentageOffsets(w) /\ w.resizeObserver = NULL
         THEN SetupResizeObserver(w)
         ELSE w
           : w \in {this}})

\* updateConfig(newConfig): the resize observer is set up or released when
\* the call names an offset
UpdateResizeObserver(this) ==
    The({LET hasPercentages == HasPercentageOffsets(w)
         IN IF hasPercentages /\ w.resizeObserver = NULL
            THEN SetupResizeObserver(w)
            ELSE IF ~hasPercentages /\ w.resizeObserver # NULL
            THEN ReleaseResizeObserver(w)
            ELSE w
           : w \in {this}})

\* faulty variant: the merge leaves the stored offset as it was
MergeConfigKeepsOffset(this, newConfig) ==
    The({IF "offset" \in DOMAIN newConfig THEN UpdateResizeObserver(w) ELSE w
           : w \in {[this EXCEPT !.config =
                        Merge(Merge(@, newConfig), [offset |-> this.config.offset])]}})

\* updateConfig(newConfig): the merge and the resize observer
MergeConfig(this, newConfig) ==
    The({IF "offset" \in DOMAIN newConfig THEN UpdateResizeObserver(w) ELSE w
           : w \in {[this EXCEPT !.config = Merge(@, newConfig)]}})

\* faulty variant: only a new offset makes updateConfig rebuild the observer
ApplyNewConfigOffsetOnly(this, newConfig) ==
    The({LET needsObserverUpdate ==
                 /\ "offset" \in DOMAIN newConfig
                 /\ newConfig.offset # w.config.offset
         IN IF needsObserverUpdate
            THEN SetupObserver(DisconnectObserver(MergeConfig(w, newConfig)))
            ELSE MergeConfig(w, newConfig)
           : w \in {this}})

\* updateConfig(newConfig) after its guard
ApplyNewConfig(this, newConfig) ==
    The({LET needsObserverUpdate ==
                 \/ /\ "offset" \in DOMAIN newConfig
                    /\ newConfig.offset # w.config.offset
                 \/ /\ "threshold" \in DOMAIN newConfig
                    /\ newConfig.threshold # w.config.threshold
         IN IF needsObserverUpdate
            THEN SetupObserver(DisconnectObserver(MergeConfig(w, newConfig)))
            ELSE MergeConfig(w, newConfig)
           : w \in {this}})

\* faulty variant: updateConfig(newConfig) without its guard
UpdateConfigUnguarded(this, newConfig) == ApplyNewConfig(this, newConfig)

\* faulty variant: updateConfig(newConfig) ends with a recompute
UpdateConfigRecomputes(this, newConfig) ==
    The({IF w.isDestroyed THEN w
         ELSE UpdateActiveIndex(ApplyNewConfig(w, newConfig))
           : w \in {this}})

\* updateConfig(newConfig)
UpdateConfig(this, newConfig) ==
    The({IF w.isDestroyed THEN w ELSE ApplyNewConfig(w, newConfig)
           : w \in {this}})

----------------------------------------------------------------------------
(* Inputs *)

OffsetInputs == {Percent50}

\* the options a tracker is constructed with
OptionInputs ==
    LET Base == {[sections |-> s] : s \in SectionInputs}
        WithOffset == Base \cup {Merge(b, [offset |-> o]) : b \in Base, o \in OffsetInputs}
    IN WithOffset \cup {Merge(b, [onIndexChange |-> Fn]) : b \in WithOffset}

\* the arguments of updateConfig
ConfigInputs ==
    {<<>>, [offset |-> Percent50], [offset |-> Num(100)]}

\* the options of scrollToIndex and scrollToElement
ScrollOptionInputs == {<<>>}

\* the options of scrollToIndex and scrollToElement, with an extra offset
\* and a behavior
ScrollOptionInputsWide ==
    {<<>>, [offset |-> 1], [offset |-> 0 - 2, behavior |-> "auto"]}

\* what the user's callback does on its successive invocations within a turn,
\* and where it scrolls to when it scrolls
CallbackInputs ==
    {[plan |-> p, y |-> 0] : p \in {<<>>, <<"throw">>, <<"destroy">>, <<"refresh">>}}
    \cup {[plan |-> <<"scroll">>, y |-> y] : y \in ScrollPositions}

----------------------------------------------------------------------------
(* Turns.  Every action is one turn of the event loop: a handler or a call *)
(* of a public method, run to completion on the state before it.           *)

\* the state at the start of a turn
Begin(cb) == [World EXCEPT !.cbPlan = cb.plan, !.cbScroll = cb.y]

\* the state at the start of a call of a public method with arguments
BeginCall(arguments) == [World EXCEPT !.args = arguments]

Min(a, b) == IF a < b THEN a ELSE b

\* the state at the end of a turn whose handler led to w; a timer turn names
\* the delay of the timeout that fired
Commit(this, op, delay) ==
    \E w \in {this} :
    /\ elements' = w.elements
    /\ currentIndex' = w.currentIndex
    /\ observer' = w.observer
    /\ config' = w.config
    /\ intersectingMap' = w.intersectingMap
    /\ throttleTimer' = w.throttleTimer
    /\ isDestroyed' = w.isDestroyed
    /\ resizeObserver' = w.resizeObserver
    /\ scrollHandler' = w.scrollHandler
    /\ elementsShared' = w.elementsShared
    /\ attr' = w.attr
    /\ scrollY' = w.scrollY
    /\ innerHeight' = w.innerHeight
    /\ timers' = w.timers
    /\ observers' = w.observers
    /\ resizeObservers' = w.resizeObservers
    /\ scrollListeners' = w.scrollListeners
    /\ destroyCalled' = w.destroyCalled
    /\ timed' = timed
    /\ sinceRecompute' = IF timed /\ w.recs # <<>> THEN 0 ELSE sinceRecompute
    /\ sinceTimerRecompute' =
          IF timed /\ op = "timer" /\ w.recs # <<>> THEN 0 ELSE sinceTimerRecompute
    /\ last' = [op |-> op, notes |-> w.notes, recs |-> w.recs, warns |-> w.warns,
                scrolls |-> w.scrolls, threw |-> w.threw, args |-> w.args,
                refreshes |-> w.refreshes, firstCall |-> w.firstCall,
                indexBefore |-> currentIndex, offsetBefore |-> config.offset,
                thresholdBefore |-> config.threshold,
                activeBefore |-> (~isDestroyed /\ elements # <<>>),
                ioLog |-> w.ioLog,
                gateBefore |-> throttleTimer # NULL,
                timersBefore |-> Len(timers),
                delay |-> delay,
                gapAny |-> sinceRecompute, gapTimer |-> sinceTimerRecompute]

NoCallback == [plan |-> <<>>, y |-> 0]

\* the callback inputs that matter in a turn that recomputes
CallbackInputsFor(this) ==
    The({
        IF w.config.onIndexChange = Fn /\ ~w.isDestroyed
           /\ ScanFrom(w, Len(w.elements) - 1) # w.currentIndex
        THEN CallbackInputs ELSE {NoCallback}
          : w \in {this}})

\* the user scrolls the page
UserScroll ==
    \E y \in ScrollPositions \ {scrollY} :
        Commit([Begin(NoCallback) EXCEPT !.scrollY = y], "userScroll", 0)

\* the viewport is resized
UserResize ==
    \E h \in Heights \ {innerHeight} :
        Commit([Begin(NoCallback) EXCEPT !.innerHeight = h], "userResize", 0)

\* the browser delivers a scroll event to the attached listener
ScrollEvent ==
    /\ scrollListeners > 0
    /\ Commit(ThrottleIndexUpdate(Begin(NoCallback)), "scroll", 0)

\* the entries a connected observer may report: here one entry, for its
\* first target
EntryInputs(io) ==
    {[x \in {e \in io.targets : \A y \in io.targets : e <= y} |-> b] : b \in BOOLEAN}

\* the browser delivers entries to the callback of a connected observer
IntersectionEvent ==
    \E k \in 1..Len(observers) :
        \E entries \in EntryInputs(observers[k]) :
            /\ DOMAIN entries # {}
            /\ Commit(HandleIntersection(Begin(NoCallback), entries),
                      "intersection", 0)

\* the browser calls the callback of a connected ResizeObserver
ResizeObserverEvent ==
    /\ Len(resizeObservers) > 0
    /\ Commit(ResizeCallback(Begin(NoCallback)), "resizeObserver", 0)

\* a pending timeout fires
TimerFire ==
    \E k \in 1..Len(timers) :
        /\ timed => timers[k].remaining = 0
        /\ \E cb \in CallbackInputsFor(World) :
              Commit(TimerCallback([Begin(cb) EXCEPT !.timers = RemoveAt(@, k)]),
                     "timer", timers[k].delay)

\* the page calls refresh()
CallRefresh ==
    \E cb \in CallbackInputsFor(World) :
        Commit(Refresh(Begin(cb)), "refresh", 0)

\* the page calls updateConfig(newConfig)
CallUpdateConfig ==
    \E newConfig \in ConfigInputs :
        Commit(UpdateConfig(BeginCall(<<newConfig>>), newConfig), "updateConfig", 0)

\* the page calls scrollToIndex(index, options)
CallScrollToIndex ==
    \E index \in {-1, 1, NumDom}, options \in ScrollOptionInputs :
        Commit(ScrollToIndex(BeginCall(<<index, options>>), index, options),
               "scrollToIndex", 0)

\* the page calls scrollToElement(element, options)
CallScrollToElement ==
    \E element \in {1, NumDom}, options \in ScrollOptionInputs :
        Commit(ScrollToElement(BeginCall(<<element, options>>), element, options),
               "scrollToElement", 0)

\* the page calls destroy()
CallDestroyMethod ==
    Commit(CallDestroy(Begin(NoCallback)), "destroy", 0)

\* TickMs of time pass
Tick ==
    /\ timed
    /\ timers' = [k \in 1..Len(timers) |->
                    [timers[k] EXCEPT !.remaining = IF @ > TickMs THEN @ - TickMs ELSE 0]]
    /\ sinceRecompute' = Min(sinceRecompute + TickMs, ClockCap)
    /\ sinceTimerRecompute' = Min(sinceTimerRecompute + TickMs, ClockCap)
    /\ last' = [op |-> "tick", notes |-> <<>>, recs |-> <<>>, warns |-> 0,
                scrolls |-> <<>>, threw |-> FALSE, args |-> <<>>,
                refreshes |-> 0, firstCall |-> <<>>,
                indexBefore |-> currentIndex, offsetBefore |-> config.offset,
                thresholdBefore |-> config.threshold,
                activeBefore |-> (~isDestroyed /\ elements # <<>>),
                ioLog |-> <<>>,
                gateBefore |-> throttleTimer # NULL,
                timersBefore |-> Len(timers), delay |-> 0,
                gapAny |-> sinceRecompute, gapTimer |-> sinceTimerRecompute]
    /\ UNCHANGED <<elements, currentIndex, observer, config, intersectingMap,
                   throttleTimer, isDestroyed, resizeObserver, scrollHandler,
                   elementsShared, attr,
                   scrollY, innerHeight, observers, resizeObservers,
                   scrollListeners, destroyCalled, timed>>

\* the state after new ScrollTrigger(options) in a document
Constructed(this, isTimed) ==
    \E w \in {this} :
    /\ elements = w.elements
    /\ currentIndex = w.currentIndex
    /\ observer = w.observer
    /\ config = w.config
    /\ intersectingMap = w.intersectingMap
    /\ throttleTimer = w.throttleTimer
    /\ isDestroyed = w.isDestroyed
    /\ resizeObserver = w.resizeObserver
    /\ scrollHandler = w.scrollHandler
    /\ elementsShared = w.elementsShared
    /\ attr = w.attr
    /\ scrollY = w.scrollY
    /\ innerHeight = w.innerHeight
    /\ timers = w.timers
    /\ observers = w.observers
    /\ resizeObservers = w.resizeObservers
    /\ scrollListeners = w.scrollListeners
    /\ destroyCalled = w.destroyCalled
    /\ timed = isTimed
    /\ sinceRecompute = ClockCap
    /\ sinceTimerRecompute = ClockCap
    /\ last = [op |-> "constructor", notes |-> w.notes, recs |-> w.recs,
               warns |-> w.warns, scrolls |-> w.scrolls, threw |-> w.threw,
               args |-> w.args, refreshes |-> 0, firstCall |-> <<>>,
               indexBefore |-> -1, offsetBefore |-> w.config.offset,
               thresholdBefore |-> w.config.threshold, activeBefore |-> FALSE,
               ioLog |-> w.ioLog,
               gateBefore |-> FALSE, timersBefore |-> 0, delay |-> 0,
               gapAny |-> ClockCap, gapTimer |-> ClockCap]

Init ==
    \E options \in OptionInputs, a \in AttrLayouts :
        Constructed(Constructor([FieldDefaults(a, 0, 4) EXCEPT !.args = <<options>>],
                                options), FALSE)

\* the page calls refresh() twice in a row
CallRefreshTwice ==
    \E cb \in CallbackInputsFor(World) :
        Commit(RefreshTwice(Begin(cb)), "refreshTwice", 0)

Next ==
    \/ UserScroll
    \/ UserResize
    \/ ScrollEvent
    \/ IntersectionEvent
    \/ ResizeObserverEvent
    \/ TimerFire
    \/ CallRefresh
    \/ CallUpdateConfig
    \/ CallScrollToIndex
    \/ CallScrollToElement
    \/ CallDestroyMethod

Spec == Init /\ [][Next]_vars

\* the same tracker with the clock modelled: a timeout fires no earlier than
\* its delay after it was set
TimedInit ==
    Constructed(Constructor(FieldDefaults([e \in DomElems |-> NULL], 0, 4),
                            [sections |-> Selector(NumDom), offset |-> Percent50,
                             onIndexChange |-> Fn]),
                TRUE)

TimedNext ==
    \/ Tick
    \/ UserScroll
    \/ ScrollEvent
    \/ IntersectionEvent
    \/ ResizeObserverEvent
    \/ TimerFire
    \/ CallRefresh
    \/ CallDestroyMethod

TimedSpec == TimedInit /\ [][TimedNext]_vars

\* the page calls scrollToIndex(index, options) with any index and options
CallScrollToIndexWide ==
    \E index \in -1..NumDom, options \in ScrollOptionInputsWide :
        Commit(ScrollToIndex(BeginCall(<<index, options>>), index, options),
               "scrollToIndex", 0)

\* the page calls scrollToElement(element, options) with any element and
\* options
CallScrollToElementWide ==
    \E element \in DomElems, options \in ScrollOptionInputsWide :
        Commit(ScrollToElement(BeginCall(<<element, options>>), element, options),
               "scrollToElement", 0)

\* the tracker as a scroll target calculator: the page scrolls, resizes,
\* reconfigures, destroys and calls scrollTo with every kind of argument
ScrollNext ==
    \/ UserScroll
    \/ UserResize
    \/ CallUpdateConfig
    \/ CallDestroyMethod
    \/ CallScrollToIndexWide
    \/ CallScrollToElementWide

ScrollSpec == Init /\ [][ScrollNext]_vars

\* a document in which an element without the attribute stands next to
\* elements with a percentage, a pixel and an unparsable attribute
MixedCycle == <<NULL, Percent50, Str(<<"2">>), Str(<<"x">>)>>
MixedAttrs == [e \in DomElems |-> MixedCycle[((e - 1) % 4) + 1]]
PlainFirstAttrs == [e \in DomElems |-> IF e = 1 THEN Str(<<"x">>) ELSE NULL]

\* the offsets given to updateConfig
OffsetValues == {Num(1), Percent20, Percent50}

\* the page calls updateConfig({offset: v})
CallUpdateConfigOffset ==
    \E v \in OffsetValues :
        Commit(UpdateConfig(BeginCall(<<[offset |-> v]>>), [offset |-> v]),
               "updateConfig", 0)

\* the page calls scrollToIndex(index) with an index of the list
CallScrollToIndexValid ==
    \E index \in 0..(NumDom - 1) :
        Commit(ScrollToIndex(BeginCall(<<index, <<>>>>), index, <<>>),
               "scrollToIndex", 0)

\* a tracker of all the elements of such a document, without a callback
OffsetInit ==
    \E a \in {MixedAttrs, PlainFirstAttrs}, o \in {<<>>, [offset |-> Percent50]} :
        Constructed(Constructor([FieldDefaults(a, 0, 4) EXCEPT
                                    !.args = <<Merge([sections |-> Selector(NumDom)], o)>>],
                                Merge([sections |-> Selector(NumDom)], o)),
                    FALSE)

\* the tracker under scrolling, resizing and changes of the global offset
OffsetNext ==
    \/ UserScroll
    \/ UserResize
    \/ CallUpdateConfigOffset
    \/ CallRefresh
    \/ CallScrollToIndexValid
    \/ CallDestroyMethod

OffsetSpec == OffsetInit /\ [][OffsetNext]_vars

Percent58 == Str(<<"5", "8", "%">>)

\* viewport heights of which 58% is, and is not, half way between two pixels
TallHeights == {24, 25}

\* the viewport is resized to one of these heights
UserResizeTall ==
    \E h \in TallHeights \ {innerHeight} :
        Commit([Begin(NoCallback) EXCEPT !.innerHeight = h], "userResize", 0)

\* the page calls updateConfig({offset: v}) with a percentage
CallUpdateConfigPercent ==
    \E v \in {Percent50, Percent58} :
        Commit(UpdateConfig(BeginCall(<<[offset |-> v]>>), [offset |-> v]),
               "updateConfig", 0)

\* a tracker of all the elements of a document in such a viewport
RoundingInit ==
    \E a \in {MixedAttrs, [e \in DomElems |-> NULL]} :
        Constructed(Constructor([FieldDefaults(a, 0, 24) EXCEPT
                                    !.args = <<[sections |-> Selector(NumDom)]>>],
                                [sections |-> Selector(NumDom)]),
                    FALSE)

\* the tracker under scrolling, resizing and changes of a percentage offset
RoundingNext ==
    \/ UserScroll
    \/ UserResizeTall
    \/ CallUpdateConfigPercent
    \/ CallRefresh
    \/ CallScrollToIndexValid

RoundingSpec == RoundingInit /\ [][RoundingNext]_vars

\* the tracker under scrolling, resizing, reconfiguration and destruction,
\* with refresh() called once or twice in a row
RefreshNext ==
    \/ UserScroll
    \/ UserResize
    \/ CallUpdateConfig
    \/ CallDestroyMethod
    \/ CallRefresh
    \/ CallRefreshTwice

RefreshSpec == Init /\ [][RefreshNext]_vars

\* what a caller may do to an array it holds: drop the last entry, reverse
\* it, or append an element of the document that is not in it
ArrayMutations(list) ==
    {SubSeq(list, 1, Len(list) - 1) : n \in {1} \cap 1..Len(list)}
    \cup {[i \in 1..Len(list) |-> list[Len(list) + 1 - i]] : n \in {1} \cap 2..Len(list)}
    \cup {Append(list, e) : e \in DomElems \ SeqRange(list)}

\* the array the caller passed in, which is config.sections too while the
\* configuration still holds it
WithCallerArray(w, list) ==
    [w EXCEPT !.elements = IF w.elementsShared THEN list ELSE @,
              !.config.sections.els = IF w.config.sections.kind = "array" THEN list ELSE @]

\* the caller mutates the array it passed to the constructor
CallerMutatesArray ==
    /\ elementsShared
    /\ \E list \in ArrayMutations(elements) :
          Commit(WithCallerArray(BeginCall(<<list>>), list), "mutateArray", 0)

\* faulty variant: getElements() hands out the tracked list itself
GetElementsResultShared(w) == [list |-> w.elements, fresh |-> FALSE]

\* what getElements() hands out: [...this.#elements], a new array
GetElementsResult(w) == [list |-> GetElements(w), fresh |-> TRUE]

\* the caller calls getElements() and mutates the list it got
CallerMutatesReturnedList ==
    \E list \in ArrayMutations(GetElementsResult(World).list) :
        Commit(IF GetElementsResult(World).fresh
               THEN BeginCall(<<GetElementsResult(World).list, list>>)
               ELSE [BeginCall(<<GetElementsResult(World).list, list>>)
                        EXCEPT !.elements = list],
               "mutateReturned", 0)

\* the page calls updateConfig with a new elements source
CallUpdateConfigSections ==
    \E newConfig \in {[sections |-> Selector(1)], [sections |-> Selector(NumDom)]} :
        Commit(UpdateConfig(BeginCall(<<newConfig>>), newConfig), "updateConfig", 0)

\* a tracker built from an array or from a selector, with a percentage
\* offset and no callback
SharingInit ==
    \E sections \in {ArrayOf(<<2, 1>>), Selector(NumDom)} :
        Constructed(Constructor([FieldDefaults([e \in DomElems |-> NULL], 0, 4)
                                    EXCEPT !.args = <<[sections |-> sections,
                                                       offset |-> Percent50]>>],
                                [sections |-> sections, offset |-> Percent50]),
                    FALSE)

\* the tracker and the lists it shares with its caller
SharingNext ==
    \/ UserScroll
    \/ CallRefresh
    \/ CallUpdateConfigSections
    \/ CallScrollToIndex
    \/ CallDestroyMethod
    \/ CallerMutatesArray
    \/ CallerMutatesReturnedList

SharingSpec == SharingInit /\ [][SharingNext]_vars

----------------------------------------------------------------------------
(* Properties.  last.recs lists the recomputes of the last turn in the     *)
(* order they began, last.notes the notifications in the order they were   *)
(* delivered; a note's rid is the position of its recompute in last.recs.  *)

Notes == {last.notes[k] : k \in 1..Len(last.notes)}
NotesOf(kind, rid) ==
    {k \in 1..Len(last.notes) : last.notes[k].kind = kind /\ last.notes[k].rid = rid}

\* the geometry a recompute ran on
RecWorld(r) ==
    [World EXCEPT !.elements = r.els, !.scrollY = r.scrollY,
                  !.innerHeight = r.innerHeight,
                  !.config = Merge(config, [offset |-> r.offset])]

\* the indices whose element has its top at or above its own trigger line
CrossedIndices(r) ==
    {i \in 0..(Len(r.els) - 1) : HasCrossed(RecWorld(r), r.els[i + 1])}

\* a turn in which a recompute request reached an instance that is not destroyed
RequestTurn == last.op \in {"scroll", "intersection"} /\ ~isDestroyed

\* C1: the stored active index is -1 or a valid index into the tracked list,
\* in every state and at every read made from the callback or from an event
\* listener.
C1_ActiveIndexInRange ==
    /\ currentIndex = -1 \/ (0 <= currentIndex /\ currentIndex < Len(elements))
    /\ \A n \in Notes : n.seen = -1 \/ (0 <= n.seen /\ n.seen < n.len)

C1_Witness == last.op = "timer" /\ currentIndex >= 1

C3_NotifiedExactlyOncePerChange ==
    \A k \in 1..Len(last.recs) :
        LET r == last.recs[k]
        IN IF r.newIndex # r.stored
           THEN /\ Cardinality(NotesOf("event", k)) = 1
                /\ Cardinality(NotesOf("callback", k)) = (IF r.hasCallback THEN 1 ELSE 0)
           ELSE /\ NotesOf("event", k) = {}
                /\ NotesOf("callback", k) = {}

\* C4: within one change the index is stored first, then the callback runs,
\* then the event is dispatched, so that getCurrentIndex() read from the
\* callback or from an event listener returns the new index of that change.
C4_StoredThenCallbackThenEvent ==
    \A k \in 1..Len(last.notes) :
        LET n == last.notes[k]
        IN /\ n.seen = n.detail.index
           /\ (n.kind = "event" /\ last.recs[n.rid].hasCallback)
                 => \E j \in 1..(k - 1) :
                       last.notes[j].kind = "callback" /\ last.notes[j].rid = n.rid

\* C5: the callback and the event of a change carry the new index, the index
\* stored before the recompute, the element at the new index and the element
\* at the previous index (none for -1).
C5_NotificationValues ==
    \A n \in Notes :
        LET r == last.recs[n.rid]
        IN n.detail = [index |-> r.newIndex, previousIndex |-> r.stored,
                       section |-> ElementAt(r.els, r.newIndex),
                       previousSection |-> ElementAt(r.els, r.stored)]

C5_Witness ==
    \E n \in Notes, m \in Notes :
        /\ n.kind = "callback" /\ m.kind = "event" /\ n.rid = m.rid
        /\ n.detail.section # None /\ n.detail.previousSection # None

\* C6: every change of the value returned by getCurrentIndex() is announced
\* in the turn that makes it, by the event and (when one is configured) by
\* the callback, with the new value as their index.
C6_EveryChangeAnnounced ==
    GetCurrentIndex(World) # last.indexBefore =>
        /\ \E n \in Notes : n.kind = "event" /\ n.detail.index = currentIndex
        /\ config.onIndexChange = Fn =>
               \E n \in Notes : n.kind = "callback" /\ n.detail.index = currentIndex

\* C7: after every intersection or scroll event delivered to an instance that
\* is not destroyed, a timeout is pending whose callback will recompute.
C7_RequestIsFollowedByRecompute == RequestTurn => Len(timers) >= 1

C9_GateSchedulesOne ==
    /\ Len(timers) <= 1
    /\ RequestTurn =>
          IF last.timersBefore > 0
          THEN Len(timers) = last.timersBefore
          ELSE Len(timers) = 1 /\ timers[1].delay = config.throttle

\* C10: once destroy() has been called the callback is never invoked again
\* and the stored index stays -1, whatever is delivered afterwards.
C10_NoCallbackAfterDestroy ==
    /\ \A n \in Notes : n.kind = "callback" => ~n.destroyed
    /\ destroyCalled => currentIndex = -1

\* destroy() has just been called while a throttled recompute was pending
C10_Witness == last.op = "destroy" /\ destroyCalled /\ last.timersBefore > 0

\* what destroy() leaves behind: nothing pending, nothing connected, nothing
\* tracked
TornDown ==
    /\ timers = <<>> /\ throttleTimer = NULL
    /\ observers = <<>> /\ observer = NULL
    /\ resizeObservers = <<>> /\ resizeObserver = NULL
    /\ scrollListeners = 0 /\ scrollHandler = NULL
    /\ intersectingMap = <<>>
    /\ elements = <<>>
    /\ currentIndex = -1

\* C11: when the first destroy() on an instance returns, no throttle timer is
\* pending, the intersection observer and the resize watcher are
\* disconnected, the scroll listener is removed, the intersection-state map
\* and the tracked list are empty and the stored index is -1.
C11_FirstDestroyTearsDown ==
    [][(~destroyCalled /\ destroyCalled') => TornDown']_vars

\* destroy() has just returned on a tracker that had a pending timer, a
\* closed gate, an active index and a resize watcher
C11_Witness ==
    /\ last.op = "destroy" /\ isDestroyed
    /\ last.timersBefore > 0 /\ last.gateBefore /\ last.indexBefore >= 0
    /\ IsPercentageOffset(config.offset)

\* the instance fields
Fields ==
    <<elements, currentIndex, observer, config, intersectingMap, throttleTimer,
      isDestroyed, resizeObserver, scrollHandler>>

\* the turn just taken threw nothing, scrolled nothing and notified nobody
QuietTurn == ~last.threw /\ last.scrolls = <<>> /\ last.notes = <<>>

\* the three queries return their defaults
QueriesReturnDefaults ==
    /\ GetCurrentIndex(World) = -1
    /\ GetCurrentElement(World) = None
    /\ GetElements(World) = <<>>

\* C12: after destroy(), every call of a public method throws nothing,
\* scrolls nothing, notifies nobody, creates no observer, watcher, listener
\* or timer, leaves the configuration and every other field unchanged, and
\* the queries return -1, none and an empty list.
C12_InertAfterDestroy ==
    [][destroyCalled =>
          /\ QuietTurn'
          /\ TornDown'
          /\ QueriesReturnDefaults'
          /\ Fields' = Fields]_vars

\* updateConfig with another offset has just been called on a destroyed
\* tracker
C12_Witness ==
    /\ last.op = "updateConfig" /\ destroyCalled
    /\ "offset" \in DOMAIN last.args[1]
    /\ last.args[1].offset # config.offset

\* the tracker was constructed from an empty resolved element set
InertEmpty == GetElementsFrom(config.sections) = <<>>

\* C13: a tracker constructed from an empty resolved element set stays
\* inert: whatever public methods are called, no intersection observer,
\* resize watcher, scroll listener or timer is attached, nothing is thrown
\* or notified, and the queries return -1, none and an empty list.
C13_EmptyTrackerStaysInert ==
    InertEmpty =>
        /\ observers = <<>>
        /\ resizeObservers = <<>>
        /\ scrollListeners = 0
        /\ timers = <<>>
        /\ QuietTurn
        /\ QueriesReturnDefaults

\* the last turn was a scrollTo by index with an index out of range, or a
\* scrollTo by element with an element that is not tracked
RejectedScrollTo ==
    \/ /\ last.op = "scrollToIndex"
       /\ last.args[1] < 0 \/ last.args[1] >= Len(elements)
    \/ /\ last.op = "scrollToElement"
       /\ last.args[1] \notin SeqRange(elements)

\* C14: scrollTo with an index outside [0, N), and scrollTo by element with
\* an element that is not tracked, emit one diagnostic, issue no scroll,
\* throw nothing and change no instance state and no pending timer.
C14_InvalidScrollToIsSkipped ==
    [][RejectedScrollTo' =>
          /\ last'.warns = 1
          /\ last'.scrolls = <<>>
          /\ ~last'.threw
          /\ last'.notes = <<>>
          /\ Fields' = Fields
          /\ timers' = timers]_vars

\* an untracked element was passed to an active tracker that has a pending
\* timer
C14_Witness ==
    /\ RejectedScrollTo /\ last.op = "scrollToElement"
    /\ ~isDestroyed /\ elements # <<>> /\ timers # <<>>

\* the last turn was a scrollTo by index with a valid index
AcceptedScrollTo ==
    /\ last.op = "scrollToIndex"
    /\ 0 <= last.args[1] /\ last.args[1] < Len(elements)

\* the element, the extra offset and the issued target of that call
ScrolledElement == elements[last.args[1] + 1]
ExtraOffset == IF "offset" \in DOMAIN last.args[2] THEN last.args[2].offset ELSE 0
IssuedTop == last.scrolls[1].top.v

\* viewport position of the top edge of element e once the page is at y
TopAt(e, y) == RectTop([World EXCEPT !.scrollY = y], e)

\* the pixel offset of element e as the recompute resolves it: its own
\* override, else the global offset
ResolvedOffsetPx(e) == CalculateOffset(World, GetElementOffset(World, e)).v

\* the target of a valid scrollTo call and where it puts the element
ScrollTargetIsTriggerLine ==
    AcceptedScrollTo =>
        /\ Len(last.scrolls) = 1 /\ ~last.scrolls[1].top.nan
        /\ IssuedTop = RectTop(World, ScrolledElement) + scrollY
                        - (innerHeight - ResolvedOffsetPx(ScrolledElement))
                        - ExtraOffset
        /\ ExtraOffset = 0 =>
              /\ TopAt(ScrolledElement, IssuedTop)
                    = TriggerLine(World, ScrolledElement).v
              /\ HasCrossed([World EXCEPT !.scrollY = IssuedTop], ScrolledElement)
              /\ ~HasCrossed([World EXCEPT !.scrollY = IssuedTop - 1], ScrolledElement)
        /\ ~last.threw /\ last.warns = 0 /\ last.notes = <<>>

C16_PositiveExtraOffsetRaisesElement ==
    (AcceptedScrollTo /\ ExtraOffset > 0) =>
        TopAt(ScrolledElement, IssuedTop)
            = TriggerLine(World, ScrolledElement).v - ExtraOffset

\* C17: the tracked list is a copy taken at construction: until destroy its
\* membership and order are the same in every state, whatever is called or
\* delivered and whatever the caller does to the array it passed in.
C17_TrackedListIsFixed ==
    [][~isDestroyed' => elements' = elements]_vars

\* the caller has just mutated the list that getElements() returned
ReturnedListMutated == last.op = "mutateReturned"

\* C18: getElements() returns a new list equal to the tracked list, in the
\* same order; mutating the returned list changes neither the tracked list
\* nor any other field, so no later query, recompute or scrollTo differs.
C18_GetElementsReturnsCopy ==
    /\ [](/\ GetElementsResult(World).fresh
          /\ GetElementsResult(World).list = elements)
    /\ [][ReturnedListMutated' =>
             /\ Fields' = Fields
             /\ GetElements(World)' = last'.args[1]
             /\ GetCurrentElement(World)' = GetCurrentElement(World)]_vars

\* the list returned by an active tracker with an active element was
\* mutated
C18_Witness ==
    /\ ReturnedListMutated /\ ~isDestroyed
    /\ last.args[2] # last.args[1]
    /\ Len(elements) >= 2 /\ currentIndex >= 0

----------------------------------------------------------------------------
\* a call of refresh() by the page has found the instance not destroyed and
\* has completed
RefreshedActive == last.op = "refresh" /\ last.refreshes >= 1

\* what the reverse scan yields for the geometry of the current state
ScanResult == ScanFrom(World, Len(elements) - 1)

TimerUntouched ==
    /\ Len(timers) = last.timersBefore
    /\ (throttleTimer # NULL) = last.gateBefore

\* C19 as stated: refresh() on an instance that is not destroyed recomputes
\* exactly once before it returns, after which the stored index is the result
\* of the scan for the current geometry and the pending timer is as it was
C19_RefreshRecomputesNow ==
    RefreshedActive =>
        /\ Len(last.recs) = last.refreshes
        /\ currentIndex = ScanResult
        /\ TimerUntouched

\* C19 (amended): every call of refresh() on an instance that is not
\* destroyed recomputes exactly once before it completes, with or without a
\* pending timer, and the stored index is then the result of the scan for the
\* current geometry; unless the callback destroyed the instance during that
\* recompute, the timers and the gate are exactly as before the call
C19_RefreshRecomputesNowUnlessDestroyed ==
    /\ [](RefreshedActive =>
            /\ Len(last.recs) = last.refreshes
            /\ currentIndex = ScanResult)
    /\ [][(last'.op = "refresh" /\ ~isDestroyed')
            => (timers' = timers /\ throttleTimer' = throttleTimer)]_vars

C19_Witness ==
    /\ RefreshedActive /\ ~isDestroyed
    /\ last.refreshes = 1
    /\ throttleTimer # NULL /\ timers # <<>>
    /\ currentIndex # last.indexBefore
    /\ currentIndex >= 0

----------------------------------------------------------------------------
\* two calls of refresh() in a row have completed
RefreshedTwice == last.op = "refreshTwice" /\ last.firstCall # <<>>

\* the recomputes of the turn all read the geometry of the current state
GeometryUnchanged ==
    \A k \in 1..Len(last.recs) :
        /\ last.recs[k].scrollY = scrollY
        /\ last.recs[k].innerHeight = innerHeight
        /\ last.recs[k].offset = config.offset

\* the changes that were notified, by callback or by event, in the turn
NotifiedChanges == {last.notes[k].rid : k \in 1..Len(last.notes)}

\* C20: two calls of refresh() in a row, with the geometry, the viewport
\* height and the offsets unchanged throughout, leave the index that the
\* first call left; the second call emits no notification, and the two calls
\* together notify at most one change
C20_RefreshIsIdempotent ==
    (RefreshedTwice /\ GeometryUnchanged) =>
        /\ currentIndex = last.firstCall[1].index
        /\ last.notes = last.firstCall[1].notes
        /\ Cardinality(NotifiedChanges) <= 1

\* the first call changed the index and notified it, the second one
\* recomputed on the instance that is still not destroyed
C20_Witness ==
    /\ RefreshedTwice /\ ~isDestroyed /\ GeometryUnchanged
    /\ last.refreshes = 2
    /\ Len(last.recs) = 2
    /\ currentIndex # last.indexBefore
    /\ last.notes # <<>>

----------------------------------------------------------------------------
\* the tracked elements without and with the data-animate-offset attribute
PlainElements == {e \in SeqRange(elements) : attr[e] = NULL}
OverrideElements == {e \in SeqRange(elements) : attr[e] # NULL}

\* updateConfig({offset: v}) has just been called on a tracker that is not
\* destroyed
OffsetUpdated ==
    /\ last.op = "updateConfig" /\ ~isDestroyed
    /\ "offset" \in DOMAIN last.args[1]

\* the trigger line of element e if the global offset were v
LineUnder(v, e) == TriggerLine([World EXCEPT !.config.offset = v], e)

\* pixels of the global offset v for the current viewport
GlobalPx(v) == CalculateOffset(World, v)

\* the greatest index of the list whose element is at or above the line
\* that the global offset (for a plain element) or its own attribute gives it
GreatestAtLine ==
    LET at == {i \in 0..(Len(elements) - 1) :
                  LET e == elements[i + 1]
                      line == IF e \in PlainElements
                              THEN innerHeight - GlobalPx(config.offset).v
                              ELSE TriggerLine(World, e).v
                  IN ~TriggerLine(World, e).nan /\ PosOf(e) - scrollY <= line}
    IN IF at = {} THEN -1 ELSE CHOOSE i \in at : \A j \in at : j <= i

\* recomputes and scrollTo calls work with the stored global offset for plain
\* elements, and no value of the global offset moves the line of an element
\* that has the attribute
GlobalOffsetInUse ==
    /\ OffsetUpdated => config.offset = last.args[1].offset
    /\ \A k \in 1..Len(last.recs) :
          ~isDestroyed => last.recs[k].newIndex = GreatestAtLine
    /\ (AcceptedScrollTo /\ ScrolledElement \in PlainElements) =>
          IssuedTop = PosOf(ScrolledElement)
                        - (innerHeight - GlobalPx(config.offset).v)
    /\ \A e \in OverrideElements : \A v \in OffsetValues \cup {Num(100)} :
          LineUnder(v, e) = TriggerLine(World, e)

\* C21: after updateConfig({offset: v}) on a tracker that is not destroyed
\* the stored global offset is v until the next such call; every recompute
\* and scrollTo takes the trigger line of an element without the attribute
\* from it (viewport height minus its pixels), and the trigger line of an
\* element with the attribute does not depend on it; the call changes neither
\* the attributes nor the viewport.
C21_UpdatedOffsetTakesEffect ==
    /\ []GlobalOffsetInUse
    /\ [][/\ config'.offset # config.offset => OffsetUpdated'
          /\ OffsetUpdated' => (attr' = attr /\ innerHeight' = innerHeight
                                /\ scrollY' = scrollY /\ elements' = elements)]_vars

\* a recompute after the offset was changed to 1 pixel, in a document with
\* plain and overriding elements, selects a plain element
C21_Witness ==
    /\ last.op = "refresh" /\ ~isDestroyed /\ last.recs # <<>>
    /\ config.offset = Num(1)
    /\ OverrideElements # {}
    /\ currentIndex >= 0 /\ elements[currentIndex + 1] \in PlainElements
    /\ LineUnder(Num(100), elements[currentIndex + 1])
          # TriggerLine(World, elements[currentIndex + 1])

----------------------------------------------------------------------------
\* round(viewportHeight * p / 100) for a percentage offset "p%", in exact
\* arithmetic and with the current viewport height; the pixels of any other
\* offset
ExactPx(offset) ==
    IF IsPercentageOffset(offset) /\ ~ParseFloat(offset.s).nan
    THEN MathRound(innerHeight * ParseFloat(offset.s).num,
                   ParseFloat(offset.s).den * 100)
    ELSE CalculateOffset(World, offset).v

\* the greatest index of the list whose element is at or above the line
\* that the exactly rounded offset gives it
GreatestAtExactLine ==
    LET at == {i \in 0..(Len(elements) - 1) :
                  /\ ~TriggerLine(World, elements[i + 1]).nan
                  /\ PosOf(elements[i + 1]) - scrollY
                        <= innerHeight
                             - ExactPx(GetElementOffset(World, elements[i + 1]))}
    IN IF at = {} THEN -1 ELSE CHOOSE i \in at : \A j \in at : j <= i

\* C22: a percentage offset p% counts as round(viewportHeight * p / 100)
\* pixels of the viewport height at the moment of each recompute and each
\* scrollTo, and "50%" gives every element the trigger line that the pixel
\* offset round(viewportHeight / 2) gives it.
C22_PercentageIsRoundedShareOfLiveHeight ==
    /\ \A k \in 1..Len(last.recs) :
          ~isDestroyed => last.recs[k].newIndex = GreatestAtExactLine
    /\ AcceptedScrollTo =>
          IssuedTop = PosOf(ScrolledElement)
                        - (innerHeight
                             - ExactPx(GetElementOffset(World, ScrolledElement)))
    /\ \A e \in PlainElements :
          LineUnder(Percent50, e) = LineUnder(Num(MathRound(innerHeight, 2)), e)

----------------------------------------------------------------------------
\* the string s taken as a percentage of the current viewport height: the
\* pixels, NaN when s does not start with a number
PercentagePx(s) ==
    IF ParseFloat(s).nan THEN JNaN
    ELSE JNum(RoundedShare(innerHeight, ParseFloat(s)))

\* the recomputes and the scrollTo calls of the turn have given every
\* element e the offset px[e]
ResolvedAs(px) ==
    /\ \A k \in 1..Len(last.recs) :
          ~isDestroyed =>
              LET at == {i \in 0..(Len(elements) - 1) :
                            /\ ~px[elements[i + 1]].nan
                            /\ PosOf(elements[i + 1]) - scrollY
                                  <= innerHeight - px[elements[i + 1]].v}
              IN last.recs[k].newIndex =
                    IF at = {} THEN -1 ELSE CHOOSE i \in at : \A j \in at : j <= i
    /\ AcceptedScrollTo =>
          last.scrolls[1].top =
              IF px[ScrolledElement].nan THEN JNaN
              ELSE JNum(PosOf(ScrolledElement)
                          - (innerHeight - px[ScrolledElement].v))

\* the offsets as stated: digits are pixels, any other attribute value is a
\* percentage, no attribute means the global offset
OffsetsAsStated ==
    [e \in DomElems |->
        IF attr[e] = NULL THEN GlobalPx(config.offset)
        ELSE IF IsDigitString(attr[e].s) THEN JNum(ParseInt10(attr[e].s))
        ELSE PercentagePx(attr[e].s)]

\* the offsets with the fallback: an attribute value that is neither digits
\* nor contains a percent sign counts as 100 pixels
OffsetsWithFallback ==
    [e \in DomElems |->
        IF attr[e] = NULL THEN GlobalPx(config.offset)
        ELSE IF IsDigitString(attr[e].s) THEN JNum(ParseInt10(attr[e].s))
        ELSE IF \E i \in 1..Len(attr[e].s) : attr[e].s[i] = "%"
        THEN PercentagePx(attr[e].s)
        ELSE JNum(100)]

\* C23 as stated: the offset of an element is the number of pixels its
\* attribute spells in digits, any other non-empty attribute value taken as a
\* percentage, and the global offset when it has no attribute
C23_ElementOffsetResolution == ResolvedAs(OffsetsAsStated)

\* C23 (amended): the offset of an element is the number of pixels its
\* attribute spells in digits, an attribute value containing a percent sign
\* taken as a percentage, 100 pixels for any other attribute value, and the
\* global offset when it has no attribute
C23_ElementOffsetResolutionWithFallback == ResolvedAs(OffsetsWithFallback)

\* scrollTo went to an element whose attribute is neither digits nor a
\* percentage, in a list that also has elements without the attribute
C23_Witness ==
    /\ AcceptedScrollTo /\ ~isDestroyed
    /\ attr[ScrolledElement] = Str(<<"x">>)
    /\ PlainElements # {}
    /\ config.offset # Num(100)

----------------------------------------------------------------------------
\* the invocations of the callback in the turn
CallbackNotes == {n \in Notes : n.kind = "callback"}

\* C24: the callback is invoked with four positional arguments, the new
\* index, the previous index, the new element and the previous element, an
\* index being -1 and an element none where there is none.
C24_CallbackGetsFourPositionalArguments ==
    \A n \in CallbackNotes :
        /\ Len(n.arguments) = 4
        /\ n.arguments = <<n.detail.index, n.detail.previousIndex,
                           n.detail.section, n.detail.previousSection>>

----------------------------------------------------------------------------
\* the tracker was constructed with the sections option and nothing else
ConstructedWithElementsOnly ==
    /\ last.op = "constructor"
    /\ DOMAIN last.args[1] = {"sections"}

\* the configuration the documentation gives for an option left out
DocumentedDefaults ==
    [offset |-> Num(100), threshold |-> "0.1", throttle |-> 100,
     behavior |-> "smooth", onIndexChange |-> NULL]

\* the options of the configuration, without the sections option
ConfigOptions == [k \in DOMAIN DocumentedDefaults |-> config[k]]

\* C25: a tracker constructed with only the sections option has an offset of
\* 100 pixels, a threshold of 0.1, a throttle window of 100 ms, the behavior
\* 'smooth' and no callback, and a throttle timer scheduled while no throttle
\* option was ever given has a delay of 100 ms.
C25_DefaultsAreAsDocumented ==
    /\ ConstructedWithElementsOnly => ConfigOptions = DocumentedDefaults
    /\ \A k \in 1..Len(timers) : timers[k].delay = 100

----------------------------------------------------------------------------
\* C26: after destroy(), no call of a public method emits a diagnostic or
\* throws; scrollTo by index and scrollTo by element are silent whatever
\* their argument.
C26_NoDiagnosticAfterDestroy ==
    [][destroyCalled => (last'.warns = 0 /\ ~last'.threw)]_vars

----------------------------------------------------------------------------
\* C27: no recompute of a tracker begins while another recompute of the same
\* tracker is still running, that is before its callback and its event
\* listeners have returned; this holds for calls made from inside the
\* callback too.
C27_RecomputeIsNotReentered ==
    \A k \in 1..Len(last.recs) : last.recs[k].running = 0

----------------------------------------------------------------------------
(* The tracker and its two observers: the page reconfigures offset and     *)
(* threshold while the browser delivers intersection, resize, scroll and   *)
(* timer events.                                                           *)

\* a document in which only the second element carries a percentage
PercentSecondAttrs == [e \in DomElems |-> IF e = 2 THEN Percent20 ELSE NULL]

\* the arguments of updateConfig: no key, a key other than offset and
\* threshold, an offset, a threshold, both
ObserverConfigInputs ==
    {<<>>, [behavior |-> "auto"],
     [offset |-> Num(100)], [offset |-> Percent50],
     [threshold |-> "0.1"], [threshold |-> "0.5"],
     [offset |-> Percent50, threshold |-> "0.5"]}

\* the page calls updateConfig(newConfig)
CallUpdateConfigObserver ==
    \E newConfig \in ObserverConfigInputs :
        Commit(UpdateConfig(BeginCall(<<newConfig>>), newConfig), "updateConfig", 0)

\* the page calls refresh(); the tracker has no callback
CallRefreshPlain == Commit(Refresh(Begin(NoCallback)), "refresh", 0)

\* a pending timeout fires; the tracker has no callback
TimerFirePlain ==
    \E k \in 1..Len(timers) :
        Commit(TimerCallback([Begin(NoCallback) EXCEPT !.timers = RemoveAt(@, k)]),
               "timer", timers[k].delay)

\* a tracker of all the elements of the document, without a callback
ObserverInit ==
    \E a \in {[e \in DomElems |-> NULL], PercentSecondAttrs},
       o \in {<<>>, [offset |-> Percent50]} :
        Constructed(Constructor([FieldDefaults(a, 0, 4) EXCEPT
                                    !.args = <<Merge([sections |-> Selector(NumDom)], o)>>],
                                Merge([sections |-> Selector(NumDom)], o)), FALSE)

ObserverNext ==
    \/ UserScroll
    \/ UserResize
    \/ ScrollEvent
    \/ IntersectionEvent
    \/ ResizeObserverEvent
    \/ TimerFirePlain
    \/ CallRefreshPlain
    \/ CallUpdateConfigObserver
    \/ CallDestroyMethod

ObserverSpec == ObserverInit /\ [][ObserverNext]_vars

----------------------------------------------------------------------------
\* the index a recompute of w finds
RecomputeResult(w) ==
    The({r.recs[Len(r.recs)].newIndex : r \in {UpdateActiveIndex(w)}})

\* the intersection maps, stored indices and thresholds a tracker of these
\* elements can hold
MapInputs == {[e \in SeqRange(elements) |-> b] : b \in BOOLEAN}
ThresholdInputs == {"0.1", "0.5"}

\* the tracker with another intersection map, stored index and threshold
Variants ==
    {[World EXCEPT !.intersectingMap = m, !.currentIndex = i,
                   !.config.threshold = t]
        : m \in MapInputs, i \in -1..(Len(elements) - 1), t \in ThresholdInputs}

\* a tracker that has no history: the field initialisers, with the list and
\* global offset, the page position and the viewport height that recompute k
\* of the turn read
FreshTracker(k) ==
    [FieldDefaults(attr, last.recs[k].scrollY, last.recs[k].innerHeight) EXCEPT
        !.elements = last.recs[k].els,
        !.config.offset = last.recs[k].offset]

----------------------------------------------------------------------------
\* the last turn was a call of updateConfig on an active tracker
UpdateConfigOnActive == last.op = "updateConfig" /\ last.activeBefore

\* the call supplied an offset or a threshold that differs from the one the
\* tracker had
SuppliesNewOffset ==
    "offset" \in DOMAIN last.args[1] /\ last.args[1].offset # last.offsetBefore
SuppliesNewThreshold ==
    /\ "threshold" \in DOMAIN last.args[1]
    /\ last.args[1].threshold # last.thresholdBefore

\* the offset and the threshold after the merge
MergedOffset ==
    IF "offset" \in DOMAIN last.args[1] THEN last.args[1].offset ELSE last.offsetBefore
MergedThreshold ==
    IF "threshold" \in DOMAIN last.args[1]
    THEN last.args[1].threshold ELSE last.thresholdBefore

\* the turn disconnected the observer and created one, which is the only
\* connected observer, has the merged offset as its bottom margin and the
\* merged threshold, and observes every tracked element
ObserverRebuilt ==
    /\ last.ioLog = <<"disconnect", "create">>
    /\ Len(observers) = 1
    /\ observer = IoRef(observers[1].id)
    /\ observers[1].rootMargin = CalculateOffset(World, MergedOffset)
    /\ observers[1].threshold = MergedThreshold
    /\ observers[1].targets = SeqRange(elements)

\* C29: updateConfig on an active tracker disconnects the observer and
\* builds a new one, observing every tracked element with the merged offset
\* and threshold, when the call supplies an offset or a threshold that
\* differs from the current one; a call that supplies neither key, or equal
\* values, keeps the existing observer.
C29_ObserverRebuiltOnNewOffsetOrThreshold ==
    UpdateConfigOnActive =>
        /\ config.offset = MergedOffset /\ config.threshold = MergedThreshold
        /\ IF SuppliesNewOffset \/ SuppliesNewThreshold
           THEN ObserverRebuilt
           ELSE last.ioLog = <<>>

\* updateConfig was called with another threshold and no offset
C29_Witness ==
    /\ UpdateConfigOnActive
    /\ SuppliesNewThreshold /\ "offset" \notin DOMAIN last.args[1]
    /\ ObserverRebuilt

----------------------------------------------------------------------------
\* the tracker is active: constructed with elements and not destroyed
Active == ~isDestroyed /\ elements # <<>>

\* a value is a percentage: a string with a percent sign in it
Percentage(v) == v.t = "str" /\ "%" \in SeqRange(v.s)

\* the global offset, or the override of a tracked element, is a percentage
PercentageInUse ==
    \/ Percentage(config.offset)
    \/ \E e \in SeqRange(elements) : attr[e] # NULL /\ Percentage(attr[e])

\* the resize watchers that are attached, and the tracker's own
WatcherAttached ==
    /\ resizeObserver # NULL
    /\ Len(resizeObservers) = 1
    /\ resizeObserver = RoRef(resizeObservers[1].id)
NoWatcher == resizeObserver = NULL /\ resizeObservers = <<>>

\* C30: while the tracker is active, a resize watcher is attached exactly
\* when the global offset or the override of a tracked element is a
\* percentage, after construction and after every updateConfig: one is
\* attached when a percentage appears and detached when none is left.
C30_ResizeWatcherIffPercentage ==
    Active => IF PercentageInUse THEN WatcherAttached ELSE NoWatcher

\* updateConfig has replaced a percentage offset by pixels in a document
\* without overrides, and then a pixel offset by a percentage
WatcherDetached ==
    /\ last.op = "updateConfig" /\ Active
    /\ Percentage(last.offsetBefore) /\ ~PercentageInUse /\ NoWatcher
WatcherReattached ==
    /\ last.op = "updateConfig" /\ Active
    /\ ~Percentage(last.offsetBefore) /\ PercentageInUse /\ WatcherAttached
    /\ \A e \in SeqRange(elements) : attr[e] = NULL
C30_Witness == WatcherDetached /\ last.ioLog # <<>>

----------------------------------------------------------------------------
\* the broadcast events dispatched in the turn
EventNotes == {n \in Notes : n.kind = "event"}

\* C31: when the callback calls destroy() while it is invoked for a change,
\* no event is dispatched after that destroy() has returned, neither the
\* event of the change in progress nor a later one.
C31_NoEventAfterDestroyInCallback ==
    \A n \in EventNotes : ~n.destroyed

----------------------------------------------------------------------------
\* the positions in last.notes of the broadcast events of the turn
EventPositions == {k \in 1..Len(last.notes) : last.notes[k].kind = "event"}

\* event j was dispatched immediately after event k
NextEvent(k, j) ==
    /\ k \in EventPositions /\ j \in EventPositions /\ k < j
    /\ \A x \in EventPositions : ~(k < x /\ x < j)

\* C32: events are dispatched in the order in which the stored index
\* changed, also when the callback scrolls the page and calls refresh():
\* the previousIndex of an event is the index of the event dispatched
\* immediately before it, and once the turn is over the index of the last
\* event dispatched is the stored active index of a tracker that is not
\* destroyed.
C32_EventsFollowIndexChanges ==
    /\ \A k, j \in EventPositions :
          NextEvent(k, j) =>
              last.notes[j].detail.previousIndex = last.notes[k].detail.index
    /\ \A k \in EventPositions :
          (~isDestroyed /\ \A x \in EventPositions : x <= k) =>
              last.notes[k].detail.index = currentIndex

----------------------------------------------------------------------------
\* the timeout whose id the tracker holds is pending
StoredTimerPending ==
    \E k \in 1..Len(timers) : TimerId(timers[k].id) = throttleTimer

\* C33: whenever the throttle gate is closed, that is a timer id is stored,
\* and no timer callback is running, the timer is really pending, so that the
\* gate reopens; also after the callback has thrown in a timer-driven
\* recompute.
C33_ClosedGateHasPendingTimer ==
    throttleTimer # NULL => StoredTimerPending

----------------------------------------------------------------------------
\* the recomputes of the turn that found another index than the stored one
ChangingRecomputes ==
    {k \in 1..Len(last.recs) : last.recs[k].newIndex # last.recs[k].stored}

\* C34: for every change the event is dispatched, whether the callback
\* returns, throws or is not configured.
C34_EventDispatchedForEveryChange ==
    \A k \in ChangingRecomputes : NotesOf("event", k) # {}

----------------------------------------------------------------------------
\* the state the constructor leaves: no recompute was made, nobody was
\* notified, no timer is scheduled and the stored index is -1
NothingComputedYet ==
    /\ currentIndex = -1
    /\ last.recs = <<>> /\ last.notes = <<>>
    /\ timers = <<>> /\ throttleTimer = NULL

\* C35: construction performs no recompute and schedules no timer: right
\* after it the stored index is -1 and nobody has been notified, even when an
\* element is already at or above its trigger line; the index changes only
\* in the recompute of a timer or of refresh(), and a timer is scheduled
\* only by an intersection or a scroll event.
C35_ConstructionComputesNothing ==
    /\ last.op = "constructor" => NothingComputedYet
    /\ currentIndex # last.indexBefore =>
          \/ last.op \in {"timer", "refresh"}
          \/ last.op = "destroy" /\ currentIndex = -1
    /\ Len(timers) > last.timersBefore => last.op \in {"scroll", "intersection"}

\* a tracker has been constructed in a document whose first element is
\* already above its trigger line
C35_Witness ==
    /\ last.op = "constructor" /\ elements # <<>>
    /\ ScanResult >= 0 /\ currentIndex = -1

----------------------------------------------------------------------------
(* The tracker reconfigured while a timer is pending: the page changes the *)
(* offset and the throttle delay between scroll events and timers.         *)

\* the arguments of updateConfig: a throttle delay, an offset, both
ThrottleConfigInputs ==
    {[throttle |-> 50], [throttle |-> 100],
     [offset |-> Num(100)], [offset |-> Percent50],
     [offset |-> Percent50, throttle |-> 100]}

\* the page calls updateConfig(newConfig)
CallUpdateConfigThrottle ==
    \E newConfig \in ThrottleConfigInputs :
        Commit(UpdateConfig(BeginCall(<<newConfig>>), newConfig), "updateConfig", 0)

ThrottleNext ==
    \/ UserScroll
    \/ ScrollEvent
    \/ IntersectionEvent
    \/ TimerFirePlain
    \/ CallUpdateConfigThrottle
    \/ CallDestroyMethod

ThrottleSpec == ObserverInit /\ [][ThrottleNext]_vars

\* the last turn was a call of updateConfig
UpdateConfigTurn == last.op = "updateConfig"

\* the turn recomputed nothing, notified nobody and left the stored index,
\* the gate and the number of pending timers as they were
NothingRecomputed ==
    /\ last.recs = <<>> /\ last.notes = <<>>
    /\ currentIndex = last.indexBefore
    /\ Len(timers) = last.timersBefore
    /\ (throttleTimer # NULL) = last.gateBefore

\* a timer scheduled in the turn has the throttle delay configured then
ScheduledWithCurrentDelay ==
    Len(timers) > last.timersBefore =>
        /\ timers[Len(timers)].delay = config.throttle
        /\ timers[Len(timers)].remaining = config.throttle

\* C36: updateConfig does not change the stored index, notifies nobody,
\* recomputes nothing and neither cancels nor schedules a timer, even when
\* the new offset changes which element satisfies the trigger condition; a
\* pending timer keeps the delay it was scheduled with, and a new throttle
\* delay applies to the timers scheduled afterwards.
C36_UpdateConfigLeavesIndexAndTimers ==
    /\ [](UpdateConfigTurn => NothingRecomputed)
    /\ []ScheduledWithCurrentDelay
    /\ [][UpdateConfigTurn' =>
             /\ timers' = timers
             /\ throttleTimer' = throttleTimer
             /\ currentIndex' = currentIndex]_vars

\* updateConfig has changed the offset and the throttle delay while a timer
\* was pending, and another element now satisfies the trigger condition
C36_Witness ==
    /\ UpdateConfigTurn /\ ~isDestroyed
    /\ {"offset", "throttle"} \subseteq DOMAIN last.args[1]
    /\ last.offsetBefore # config.offset
    /\ timers # <<>> /\ timers[1].delay # config.throttle
    /\ ScanResult # currentIndex

----------------------------------------------------------------------------
\* the last turn was scrollToIndex(i) with a valid index and no extra offset
PlainScrollTo == AcceptedScrollTo /\ ExtraOffset = 0

\* the page once the issued scroll has been applied exactly, everything else
\* as it is
AfterIssuedScroll == JumpTo(World, IssuedTop)

\* the elements after the target that have crossed their own trigger line
\* on that page
LaterCrossed ==
    {j \in (last.args[1] + 1)..(Len(elements) - 1) :
        HasCrossed(AfterIssuedScroll, elements[j + 1])}

\* C37: when the scroll issued by scrollToIndex(i) without an extra offset
\* is applied exactly and nothing else changes, the next recompute finds
\* element i exactly on its trigger line: the index it yields is at least i,
\* and is i when no element after i has crossed its own trigger line.
C37_ScrollToThenRecomputeFindsTarget ==
    PlainScrollTo =>
        /\ RectTop(AfterIssuedScroll, ScrolledElement)
              = TriggerLine(AfterIssuedScroll, ScrolledElement).v
        /\ RecomputeResult(AfterIssuedScroll) >= last.args[1]
        /\ LaterCrossed = {} => RecomputeResult(AfterIssuedScroll) = last.args[1]

\* the scroll put the target on its line and a later element above its own
C37_Witness ==
    /\ PlainScrollTo /\ IssuedTop # scrollY
    /\ LaterCrossed # {}
    /\ RecomputeResult(AfterIssuedScroll) > last.args[1]

----------------------------------------------------------------------------
\* the turn created an intersection observer
CreatedObserver == "create" \in SeqRange(last.ioLog)

\* the connected observers: at most one, the one the tracker holds; none
\* once destroy() has been called
AtMostOneConnected ==
    /\ Len(observers) <= 1
    /\ observers # <<>> => observer = IoRef(observers[1].id)
    /\ destroyCalled => observers = <<>> /\ observer = NULL

\* C38: at most one intersection observer created by the tracker is
\* connected at any moment: a rebuild, by updateConfig or by the resize
\* watcher's callback, disconnects the previous observer before it creates
\* the next one; after destroy() none is connected and none is created.
C38_AtMostOneObserverConnected ==
    /\ []AtMostOneConnected
    /\ [][(observers # <<>> /\ CreatedObserver') =>
             last'.ioLog = <<"disconnect", "create">>]_vars
    /\ [][destroyCalled => ~CreatedObserver']_vars

\* the resize watcher's callback has rebuilt the observer
C38_Witness ==
    /\ last.op = "resizeObserver"
    /\ last.ioLog = <<"disconnect", "create">>
    /\ Len(observers) = 1 /\ config.threshold = "0.5"

====
